---- MODULE Spec2Model ----
(***************************************************************************)
(* Model of the n8n PDF nodes: the page-range parser and grouper of the    *)
(* PdfLib node (static PdfLib.parsePageRanges, PdfLib.groupConsecutivePages)*)
(* and the per-item execute loop of the PdfLib node, and the execute loop   *)
(* of the standalone SplitPdf node, run on the same items after it.        *)
(*                                                                         *)
(* A JavaScript string is a sequence of one-character strings.  NaN is the *)
(* record NaN below.  The character set has no "x"/"X" and no "+", so the   *)
(* hexadecimal-prefix case of parseInt cannot arise in the inputs drawn.   *)
(***************************************************************************)
EXTENDS Integers, Sequences, FiniteSets, TLC

VARIABLES
    \* harness applying the two static functions to drawn arguments
    fn,             \* "parse" | "group": which function the harness applies
    rangesString,   \* argument of parsePageRanges
    totalPagesArg,  \* argument of parsePageRanges
    pagesArg,       \* argument of groupConsecutivePages
    fnpc,           \* "call" | "returned"
    parseResult,    \* value returned by parsePageRanges
    groupResult,    \* value returned by groupConsecutivePages
    \* PdfLib.execute
    items,          \* this.getInputData() with the node parameters of each item
    continueOnFail, \* this.continueOnFail()
    itemIndex,      \* loop variable of execute, 0-based
    pc,             \* position of execute
    returnData,     \* records pushed so far
    pdfDoc,         \* document loaded for the current item
    fileBytes,      \* bytes read for the current item
    pdfChunks,      \* outputs of the current split
    i,              \* loop variable of the chunk loop
    pageGroups,     \* groups still to be written by the range loop
    error,          \* error caught for the current item
    thrown,         \* error thrown out of execute
    calls,          \* calls made to the host and the PDF engine, in order
    \* SplitPdf.execute, on the same items and continueOnFail
    splitItemIndex, \* loop variable itemIndex of SplitPdf.execute, 0-based
    splitPc,        \* position of SplitPdf.execute
    splitReturnData, \* returnData of SplitPdf.execute
    splitPdfDoc,    \* pdfDoc of SplitPdf.execute
    splitPdfChunks, \* pdfChunks of SplitPdf.execute
    splitI,         \* loop variable i of SplitPdf.execute
    splitError,     \* error caught by SplitPdf.execute for the current item
    splitThrown     \* error thrown out of SplitPdf.execute

fnvars == <<fn, rangesString, totalPagesArg, pagesArg, fnpc, parseResult, groupResult>>

execvars == <<items, continueOnFail, itemIndex, pc, returnData, pdfDoc, fileBytes,
              pdfChunks, i, pageGroups, error, thrown, calls>>

splitvars == <<splitItemIndex, splitPc, splitReturnData, splitPdfDoc, splitPdfChunks,
               splitI, splitError, splitThrown>>

vars == <<fn, rangesString, totalPagesArg, pagesArg, fnpc, parseResult, groupResult,
          items, continueOnFail, itemIndex, pc, returnData, pdfDoc, fileBytes,
          pdfChunks, i, pageGroups, error, thrown, calls,
          splitItemIndex, splitPc, splitReturnData, splitPdfDoc, splitPdfChunks,
          splitI, splitError, splitThrown>>

----------------------------------------------------------------------------
(* Bounds *)

MaxLen == 4          \* longest enumerated range expression
MaxTotal == 3        \* largest enumerated page count of the parser harness
MaxPageNo == 5       \* largest page number in enumerated grouper inputs
MaxPages == 4        \* largest enumerated page count of an input document
MaxChunkSize == 3    \* largest enumerated chunkSize parameter
MaxSpin == 2         \* iterations a chunk loop may run beyond totalPages
MaxItems == 2        \* longest enumerated batch

----------------------------------------------------------------------------
(* JavaScript strings and numbers *)

\* A JavaScript number read from text: NaN, or an integer
NaN == [nan |-> TRUE, val |-> 0]

Num(n) == [nan |-> FALSE, val |-> n]

DigitChars == <<"0", "1", "2", "3", "4", "5", "6", "7", "8", "9">>

IsDigit(c) == \E d \in 1..10 : DigitChars[d] = c

DigitVal(c) == (CHOOSE d \in 1..10 : DigitChars[d] = c) - 1

IsWhite(c) == c = " "

\* Template-literal conversion of an integer: `${n}`
RECURSIVE NatToString(_)
NatToString(n) ==
    IF n < 10 THEN <<DigitChars[n + 1]>>
    ELSE Append(NatToString(n \div 10), DigitChars[(n % 10) + 1])

NumToString(n) == IF n < 0 THEN <<"-">> \o NatToString(0 - n) ELSE NatToString(n)

\* String.prototype.includes for a one-character needle
Includes(s, c) == \E k \in 1..Len(s) : s[k] = c

\* String.prototype.split for a one-character separator
RECURSIVE SplitFrom(_, _, _, _, _)
SplitFrom(s, sep, k, cur, acc) ==
    IF k > Len(s) THEN Append(acc, cur)
    ELSE IF s[k] = sep THEN SplitFrom(s, sep, k + 1, <<>>, Append(acc, cur))
    ELSE SplitFrom(s, sep, k + 1, Append(cur, s[k]), acc)

Split(s, sep) == SplitFrom(s, sep, 1, <<>>, <<>>)

RECURSIVE TrimStart(_)
TrimStart(s) == IF s # <<>> /\ IsWhite(Head(s)) THEN TrimStart(Tail(s)) ELSE s

RECURSIVE TrimEnd(_)
TrimEnd(s) ==
    IF s # <<>> /\ IsWhite(s[Len(s)]) THEN TrimEnd(SubSeq(s, 1, Len(s) - 1)) ELSE s

\* String.prototype.trim
Trim(s) == TrimEnd(TrimStart(s))

\* The value of the longest prefix of decimal digits of s, having read acc
RECURSIVE DigitsPrefix(_, _, _)
DigitsPrefix(s, seen, acc) ==
    IF s # <<>> /\ IsDigit(Head(s))
    THEN DigitsPrefix(Tail(s), TRUE, 10 * acc + DigitVal(Head(s)))
    ELSE IF seen THEN Num(acc) ELSE NaN

\* parseInt(s) without a radix: skips leading white space, takes an optional
\* sign, reads decimal digits up to the first other character, and gives
\* NaN when there is no digit.
parseInt(s) ==
    LET t == TrimStart(s)
        neg == t # <<>> /\ Head(t) = "-"
        signed == t # <<>> /\ Head(t) \in {"-", "+"}
        v == DigitsPrefix(IF signed THEN Tail(t) ELSE t, FALSE, 0)
    IN IF v.nan THEN NaN ELSE IF neg THEN Num(0 - v.val) ELSE v

isNaN(v) == v.nan

\* a comparison with NaN is false
Less(x, y) == ~x.nan /\ ~y.nan /\ x.val < y.val

----------------------------------------------------------------------------
(* PdfLib.parsePageRanges *)

\* variant: the range loop stops one page early (i < end)
RECURSIVE PushRange_Exclusive(_, _, _)
PushRange_Exclusive(pages, at, end) ==
    IF at < end THEN PushRange_Exclusive(Append(pages, at), at + 1, end) ELSE pages

\* for (let i = start; i <= end; i++) pages.push(i)
RECURSIVE PushRange(_, _, _)
PushRange(pages, at, end) ==
    IF at <= end THEN PushRange(Append(pages, at), at + 1, end) ELSE pages

RangeError(range, totalPages) ==
    [error |-> <<"Invalid page range: ", range,
                 ". Pages must be between 1 and ", NumToString(totalPages)>>]

PageError(range, totalPages) ==
    [error |-> <<"Invalid page number: ", range,
                 ". Pages must be between 1 and ", NumToString(totalPages)>>]

\* The test of a token holding "-": [start, end] are the first two pieces
RangeStart(range) == parseInt(Trim(Split(range, "-")[1]))

RangeEnd(range) == parseInt(Trim(Split(range, "-")[2]))

RangeRejected(range, totalPages) ==
    LET start == RangeStart(range)
        end == RangeEnd(range)
    IN isNaN(start) \/ isNaN(end) \/ Less(start, Num(1))
       \/ Less(Num(totalPages), end) \/ Less(end, start)

\* The test of a token without "-"
PageRejected(range, totalPages) ==
    LET page == parseInt(range)
    IN isNaN(page) \/ Less(page, Num(1)) \/ Less(Num(totalPages), page)

\* One pass of the loop body over ranges[k..]; pages is the accumulator
RECURSIVE ParseLoop(_, _, _, _)
ParseLoop(ranges, k, pages, totalPages) ==
    IF k > Len(ranges) THEN [pages |-> pages]
    ELSE LET range == ranges[k] IN
         IF Includes(range, "-")
         THEN IF RangeRejected(range, totalPages)
              THEN RangeError(range, totalPages)
              ELSE ParseLoop(ranges, k + 1,
                             PushRange(pages, RangeStart(range).val,
                                       RangeEnd(range).val),
                             totalPages)
         ELSE IF PageRejected(range, totalPages)
              THEN PageError(range, totalPages)
              ELSE ParseLoop(ranges, k + 1, Append(pages, parseInt(range).val),
                             totalPages)

\* variant: repeated pages are kept
Dedup_KeepAll(pages, acc) == acc \o pages

\* [...new Set(pages)]: first occurrences, in insertion order
RECURSIVE Dedup(_, _)
Dedup(pages, acc) ==
    IF pages = <<>> THEN acc
    ELSE IF \E k \in 1..Len(acc) : acc[k] = Head(pages)
         THEN Dedup(Tail(pages), acc)
         ELSE Dedup(Tail(pages), Append(acc, Head(pages)))

\* insertion of x into an ascending sequence
RECURSIVE InsertSorted(_, _)
InsertSorted(s, x) ==
    IF s = <<>> THEN <<x>>
    ELSE IF x - Head(s) < 0 THEN <<x>> \o s
    ELSE <<Head(s)>> \o InsertSorted(Tail(s), x)

\* variant: the result is left in insertion order
SortAsc_Unsorted(s) == s

\* Array.prototype.sort((a, b) => a - b)
RECURSIVE SortAsc(_)
SortAsc(s) == IF s = <<>> THEN <<>> ELSE InsertSorted(SortAsc(Tail(s)), Head(s))

\* variant: empty tokens are dropped
Ranges_SkipEmpty(s) ==
    LET parts == Split(s, ",")
    IN SelectSeq([k \in 1..Len(parts) |-> Trim(parts[k])], LAMBDA t : t # <<>>)

\* rangesString.split(',').map(range => range.trim())
Ranges(s) == LET parts == Split(s, ",") IN [k \in 1..Len(parts) |-> Trim(parts[k])]

parsePageRanges(s, totalPages) ==
    LET r == ParseLoop(Ranges(s), 1, <<>>, totalPages)
    IN IF "error" \in DOMAIN r THEN r
       ELSE [pages |-> SortAsc(Dedup(r.pages, <<>>))]

----------------------------------------------------------------------------
(* PdfLib.groupConsecutivePages *)

\* variant: a new group starts only after a gap of more than one page
RECURSIVE GroupLoop_WideGap(_, _, _, _)
GroupLoop_WideGap(pages, at, groups, currentGroup) ==
    IF at > Len(pages) THEN Append(groups, currentGroup)
    ELSE IF pages[at] <= pages[at - 1] + 2
         THEN GroupLoop_WideGap(pages, at + 1, groups, Append(currentGroup, pages[at]))
         ELSE GroupLoop_WideGap(pages, at + 1, Append(groups, currentGroup), <<pages[at]>>)

RECURSIVE GroupLoop(_, _, _, _)
GroupLoop(pages, at, groups, currentGroup) ==
    IF at > Len(pages) THEN Append(groups, currentGroup)
    ELSE IF pages[at] = pages[at - 1] + 1
         THEN GroupLoop(pages, at + 1, groups, Append(currentGroup, pages[at]))
         ELSE GroupLoop(pages, at + 1, Append(groups, currentGroup), <<pages[at]>>)

\* variant: every page is a group of its own
groupConsecutivePages_PerPage(pages) == [k \in 1..Len(pages) |-> <<pages[k]>>]

groupConsecutivePages(pages) ==
    IF Len(pages) = 0 THEN <<>>
    ELSE GroupLoop(pages, 2, <<>>, <<pages[1]>>)

----------------------------------------------------------------------------
(* Documents of the PDF engine and input items of the host *)

\* outcomes of an accessor of the engine
Thrown == [kind |-> "throws"]

Absent == [kind |-> "undefined"]

Value(v) == [kind |-> "value", value |-> v]

Null == [kind |-> "null"]

PageIds == <<"A", "B", "C", "D", "E", "F", "G", "H", "I", "J", "K", "L">>

\* page sizes are counted in thousandths of a point
LetterWidth == 612000

LetterHeight == 792000

MetaFields ==
    {"title", "author", "subject", "creator", "producer", "keywords",
     "creationDate", "modificationDate"}

\* the k-th page of a document; shape selects what its accessors give
Page(k, shape) ==
    [id |-> PageIds[k],
     size |-> CASE shape \in {"plain", "locked"} ->
                       [kind |-> "value", width |-> LetterWidth,
                                       height |-> LetterHeight]
                [] shape = "bare" -> [kind |-> "value", width |-> 841894,
                                      height |-> 595276]
                [] shape = "torn" /\ k % 2 = 0 ->
                       [kind |-> "value", width |-> 841894, height |-> 595276]
                [] OTHER -> Thrown,
     rotation |-> CASE shape = "plain" -> Value(0)
                    [] shape = "bare" -> Thrown
                    [] OTHER -> Value(90)]

\* a document of n pages; shape selects what its accessors give
Doc(n, shape) ==
    [pages |-> [k \in 1..n |-> Page(k, shape)],
     getPages |-> IF shape = "broken" THEN Thrown ELSE Value("pages"),
     meta |-> [f \in MetaFields |->
                  CASE shape = "plain" -> Value(f)
                    [] shape = "bare" -> Absent
                    [] OTHER -> Thrown],
     isEncrypted |-> shape \in {"broken", "locked"},
     getForm |-> IF shape = "plain" THEN Value("form") ELSE Thrown,
     bytes |-> 1000 * n + 500]

\* the fields read as text; the other two are dates
TextFields == {"title", "author", "subject", "creator", "producer", "keywords"}

\* what the accessor of field f does: it throws, returns undefined or
\* returns a value
AccessorOutcome(f, kind) ==
    CASE kind = "throws" -> Thrown
      [] kind = "undefined" -> Absent
      [] OTHER -> Value(f)

\* the accessors of every field, each with an outcome of its own, and the
\* documents in which one text field is the empty text
MetaMaps ==
    {[f \in MetaFields |-> AccessorOutcome(f, kinds[f])] :
        kinds \in [MetaFields -> {"throws", "undefined", "value"}]}
    \cup {[f \in MetaFields |-> IF f = g THEN Value("") ELSE Value(f)] :
            g \in TextFields}

\* a plain document of one page whose metadata accessors behave as meta says
DocWithMeta(meta) == [Doc(1, "plain") EXCEPT !.meta = meta]

NoDoc == [kind |-> "none"]

NoBytes == [kind |-> "undefined"]

\* "r.pdf"
PlainName == <<"r", ".", "p", "d", "f">>

\* "a.pdf.pdf"
DoubleName == <<"a", ".", "p", "d", "f", ".", "p", "d", "f">>

\* "" stands for a missing fileName as well: both are falsy
NoName == <<>>

\* "a.pdfx.pdf"
InnerName == <<"a", ".", "p", "d", "f", "x", ".", "p", "d", "f">>

FileNames == {PlainName, DoubleName, InnerName, NoName}

\* one attachment: the document behind it and what each transport does
\* ("ok", "readFails": the read throws, "loadFails": PDFDocument.load throws)
BinaryData(fileName, doc, fs, buf) ==
    [fileName |-> fileName, doc |-> doc, fs |-> fs, buf |-> buf]

\* item.binary with one attachment under property prop
Binary(prop, data) == [p \in {prop} |-> data]

\* item.binary missing or empty
NoBinary == [p \in {} |-> NoDoc]

\* an input item together with the node parameters the host resolves for it
Item(binary, operation, splitMode, chunkSize, pageRanges) ==
    [binary |-> binary, binaryPropertyName |-> "data", operation |-> operation,
     splitMode |-> splitMode, chunkSize |-> chunkSize, pageRanges |-> pageRanges]

----------------------------------------------------------------------------
(* Helpers of PdfLib.execute *)

Min(a, b) == IF a < b THEN a ELSE b

\* the position of the first occurrence of pat in s, 0 when there is none
IndexOf(s, pat) ==
    LET hits == {k \in 1..(Len(s) - Len(pat) + 1) :
                    SubSeq(s, k, k + Len(pat) - 1) = pat}
    IN IF hits = {} THEN 0 ELSE CHOOSE k \in hits : \A j \in hits : k <= j

\* String.prototype.replace with a string pattern: the first occurrence only
Replace(s, pat, rep) ==
    LET k == IndexOf(s, pat)
    IN IF k = 0 THEN s
       ELSE SubSeq(s, 1, k - 1) \o rep \o SubSeq(s, k + Len(pat), Len(s))

DotPdf == <<".", "p", "d", "f">>

\* Array.from({ length }, (_, idx) => from + idx); a negative length gives []
ArrayFrom(length, from) == [idx \in 1..length |-> from + idx - 1]

\* the indices all name a page of doc
IndicesInRange(doc, indices) ==
    \A k \in 1..Len(indices) : indices[k] \in 0..(Len(doc.pages) - 1)

\* variant: the copies are appended in reverse order
CopyPages_Reversed(doc, indices) ==
    [k \in 1..Len(indices) |-> doc.pages[indices[Len(indices) + 1 - k] + 1]]

\* newPdf.copyPages(pdfDoc, indices) followed by addPage of each copy
CopyPages(doc, indices) == [k \in 1..Len(indices) |-> doc.pages[indices[k] + 1]]

\* newPdf.save() and Buffer.from(bytes).toString('base64')
SaveBase64(newPdfPages) == [base64 |-> [pdf |-> newPdfPages]]

\* variant: the window end is not clamped to the page count
ChunkEnd_Unclamped(from, chunkSize, totalPages) == from + chunkSize

ChunkEnd(from, chunkSize, totalPages) == Min(from + chunkSize, totalPages)

\* variant: the label starts at the 0-based index
ChunkLabel_ZeroBased(from, end) == NumToString(from) \o <<"-">> \o NumToString(end)

ChunkLabel(from, end) == NumToString(from + 1) \o <<"-">> \o NumToString(end)

\* variant: a one-page group is labelled like a range
GroupLabel_AlwaysRange(group) ==
    NumToString(group[1]) \o <<"-">> \o NumToString(group[Len(group)])

GroupLabel(group) ==
    IF Len(group) = 1 THEN NumToString(group[1])
    ELSE NumToString(group[1]) \o <<"-">> \o NumToString(group[Len(group)])

\* variant: page numbers are used as indices without the shift to 0-based
PageIndices_NoShift(group) == group

\* group.map(page => page - 1)
PageIndices(group) == [k \in 1..Len(group) |-> group[k] - 1]

\* variant: attachments are numbered from 0
BinaryKey_FromZero(idx) == <<"p", "d", "f">> \o NumToString(idx)

\* `pdf${idx + 1}` for the 0-based position idx
BinaryKey(idx) == <<"p", "d", "f">> \o NumToString(idx + 1)

BaseFileName(fileName) ==
    LET stripped == Replace(fileName, DotPdf, <<>>)
    IN IF stripped = <<>> THEN <<"s", "p", "l", "i", "t">> ELSE stripped

OutputFileName(fileName, splitMode, chunk, idx) ==
    IF splitMode = "pageRanges"
    THEN BaseFileName(fileName) \o <<"_", "p", "a", "g", "e", "s", "_">>
         \o chunk.pageRange \o DotPdf
    ELSE BaseFileName(fileName) \o <<"_", "c", "h", "u", "n", "k", "_">>
         \o NumToString(idx + 1) \o DotPdf

\* pdfChunks.reduce((acc, chunk, idx) => ..., {}) from position idx on
RECURSIVE BinaryReduce(_, _, _, _, _)
BinaryReduce(chunks, idx, acc, fileName, splitMode) ==
    IF idx >= Len(chunks) THEN acc
    ELSE BinaryReduce(chunks, idx + 1,
             (BinaryKey(idx) :> [data |-> chunks[idx + 1].data,
                                 fileName |-> OutputFileName(fileName, splitMode,
                                                             chunks[idx + 1], idx),
                                 mimeType |-> "application/pdf"]) @@ acc,
             fileName, splitMode)

OrUnknown(fileName) ==
    IF fileName = <<>>
    THEN <<"u", "n", "k", "n", "o", "w", "n", ".", "p", "d", "f">>
    ELSE fileName

SplitRecord(chunks, splitMode, fileName, index) ==
    [json |-> [count |-> Len(chunks),
               pageRanges |-> [k \in 1..Len(chunks) |-> chunks[k].pageRange],
               operation |-> "split",
               splitMode |-> splitMode,
               originalFileName |-> OrUnknown(fileName)],
     binary |-> BinaryReduce(chunks, 0, NoBinary, fileName, splitMode),
     pairedItem |-> index]

ErrorRecord(message, bytes, index) ==
    [json |-> [error |-> message, debugInfo |-> [fileBytes |-> bytes]],
     pairedItem |-> index]

MissingInputError(name) ==
    <<"No binary data property '", name, "' found on item">>

LoadFailureError == <<"Failed to load PDF from both filesystem and binary data">>

\* the engine rejects a page index outside the source document
CopyError == <<"copyPages: page index out of range">>

NoError == <<>>

NoThrown == [kind |-> "none"]

\* variant: the index is reported 1-based
NodeOperationError_OneBased(message, index) ==
    [kind |-> "NodeOperationError", message |-> message, itemIndex |-> index + 1]

NodeOperationError(message, index) ==
    [kind |-> "NodeOperationError", message |-> message, itemIndex |-> index]

----------------------------------------------------------------------------
(* Harness of the two static functions *)

Chars == {"0", "1", "2", "3", "-", ",", " ", "a"}

RECURSIVE StringsOfLen(_)
StringsOfLen(n) ==
    IF n = 0 THEN {<<>>}
    ELSE {Append(s, c) : s \in StringsOfLen(n - 1), c \in Chars}

Strings == UNION {StringsOfLen(n) : n \in 0..MaxLen}

\* "1-3,5,7-10"
ExampleSpec == <<"1", "-", "3", ",", "5", ",", "7", "-", "1", "0">>

\* "1-3, 5, 7-10"
ExampleSpecSpaced ==
    <<"1", "-", "3", ",", " ", "5", ",", " ", "7", "-", "1", "0">>

ExampleTotal == 10

\* "1-3,4-5"
AdjacentSpec == <<"1", "-", "3", ",", "4", "-", "5">>

\* "4-5,1-3"
AdjacentSpecSwapped == <<"4", "-", "5", ",", "1", "-", "3">>

\* longer expressions: repeated, overlapping, unordered and malformed tokens
SampleSpecs ==
    {<<"2", ",", "1", ",", "1">>,
     <<"3", ",", "1", "-", "2">>,
     <<"1", "-", "2", ",", "2", "-", "3">>,
     <<"3", ",", "1", "-", "2", ",", "2">>,
     <<"1", "-", "2", ",", "4">>,
     <<"1", ",", "2", "a", ",", "4">>,
     <<"1", ",", "1", "-", "2", "-", "3">>,
     <<"1", " ", "-", " ", "2", ",", " ", "3", " ">>}

ExampleInputs ==
    {<<ExampleSpec, ExampleTotal>>, <<ExampleSpecSpaced, ExampleTotal>>,
     <<<<"5", "-", "2">>, ExampleTotal>>, <<<<"1", "1">>, ExampleTotal>>,
     <<<<"1", "-", "3", ",", "5">>, ExampleTotal>>}
    \cup (SampleSpecs \X (0..MaxTotal))

ParseInputs == (Strings \X (0..MaxTotal)) \cup ExampleInputs

\* the ascending enumeration of a finite set of integers
RECURSIVE SetToSeq(_)
SetToSeq(S) ==
    IF S = {} THEN <<>>
    ELSE LET m == CHOOSE x \in S : \A y \in S : x <= y
         IN <<m>> \o SetToSeq(S \ {m})

ExamplePages == <<1, 2, 3, 5, 7, 8, 9, 10>>

GroupInputs == {SetToSeq(S) : S \in SUBSET (1..MaxPageNo)} \cup {ExamplePages}

NoResult == [none |-> TRUE]

\* SplitPdf.execute before its first pass; at is "idle" when it is not run
SplitInit(at) ==
    /\ splitItemIndex = 0
    /\ splitPc = at
    /\ splitReturnData = <<>>
    /\ splitPdfDoc = NoDoc
    /\ splitPdfChunks = <<>>
    /\ splitI = 0
    /\ splitError = NoError
    /\ splitThrown = NoThrown

FnInit ==
    /\ SplitInit("idle")
    /\ items = <<>>
    /\ continueOnFail = FALSE
    /\ itemIndex = 0
    /\ pc = "idle"
    /\ returnData = <<>>
    /\ pdfDoc = NoDoc
    /\ fileBytes = NoBytes
    /\ pdfChunks = <<>>
    /\ i = 0
    /\ pageGroups = <<>>
    /\ error = NoError
    /\ thrown = NoThrown
    /\ calls = <<>>
    /\ fnpc = "call"
    /\ parseResult = NoResult
    /\ groupResult = NoResult
    /\ \/ /\ fn = "parse"
          /\ \E in \in ParseInputs : rangesString = in[1] /\ totalPagesArg = in[2]
          /\ pagesArg = <<>>
       \/ /\ fn = "group"
          /\ pagesArg \in GroupInputs
          /\ rangesString = <<>>
          /\ totalPagesArg = 0

CallParse ==
    /\ fn = "parse" /\ fnpc = "call"
    /\ parseResult' = parsePageRanges(rangesString, totalPagesArg)
    /\ fnpc' = "returned"
    /\ UNCHANGED <<fn, rangesString, totalPagesArg, pagesArg, groupResult>>
    /\ UNCHANGED <<execvars, splitvars>>

\* the grouper applied to an argument of its own
CallGroup ==
    /\ fn = "group" /\ fnpc = "call"
    /\ groupResult' = groupConsecutivePages(pagesArg)
    /\ fnpc' = "returned"
    /\ UNCHANGED <<fn, rangesString, totalPagesArg, pagesArg, parseResult>>
    /\ UNCHANGED <<execvars, splitvars>>

FnNext == CallParse \/ CallGroup

SpecFn == FnInit /\ [][FnNext]_vars

----------------------------------------------------------------------------
(* PdfLib.execute, getInfo *)

\* variant: only a throwing accessor gives null
Accessed_OnlyCatch(outcome) ==
    IF outcome.kind = "throws" THEN Null ELSE outcome

\* try { x = accessor() || null } catch (error) { /* ignore */ }
Accessed(outcome) ==
    IF outcome.kind = "value" /\ outcome.value # "" THEN outcome ELSE Null

\* date ? date.toISOString() : null
IsoOrNull(date) ==
    IF date.kind = "value" THEN Value(<<"ISO", date.value>>) ELSE Null

\* Math.round(x * 100) / 100 for x counted in thousandths
Round2(x) == ((x + 5) \div 10) * 10

DefaultPageInfo(index) ==
    [pageNumber |-> index + 1, width |-> LetterWidth, height |-> LetterHeight,
     orientation |-> "portrait", rotation |-> 0]

\* the callback of pages.map for the page at 0-based position index
PageInfo(page, index) ==
    IF page.size.kind = "throws" THEN DefaultPageInfo(index)
    ELSE [pageNumber |-> index + 1,
          width |-> Round2(page.size.width),
          height |-> Round2(page.size.height),
          orientation |-> IF page.size.width > page.size.height
                          THEN "landscape" ELSE "portrait",
          rotation |-> IF page.rotation.kind = "value" THEN page.rotation.value
                       ELSE 0]

\* variant: the fallback leaves the page details empty
PageInfos_EmptyFallback(doc, pageCount) ==
    IF doc.getPages.kind = "throws"
    THEN <<>>
    ELSE [k \in 1..Len(doc.pages) |-> PageInfo(doc.pages[k], k - 1)]

PageInfos(doc, pageCount) ==
    IF doc.getPages.kind = "throws"
    THEN [k \in 1..pageCount |-> DefaultPageInfo(k - 1)]
    ELSE [k \in 1..Len(doc.pages) |-> PageInfo(doc.pages[k], k - 1)]

IsLandscape(p) == p.orientation = "landscape"

IsPortrait(p) == p.orientation = "portrait"

IsRotated(p) == p.rotation # 0

\* `${p.width}x${p.height}`, sizes in thousandths
SizeText(p) == NumToString(p.width) \o <<"x">> \o NumToString(p.height)

\* Math.round((bytes / (1024 * 1024)) * 100) / 100, in hundredths of a MB
FileSizeMB(bytes) == (2 * 100 * bytes + 1048576) \div (2 * 1048576)

InfoRecord(doc, data, bytes, index) ==
    LET pageCount == Len(doc.pages)
        pageInfo == PageInfos(doc, pageCount)
        uniqueSizes == Dedup([k \in 1..Len(pageInfo) |-> SizeText(pageInfo[k])], <<>>)
    IN [json |->
           [pageCount |-> pageCount,
            fileName |-> OrUnknown(data.fileName),
            fileSizeBytes |-> bytes.length,
            fileSizeMB |-> FileSizeMB(bytes.length),
            operation |-> "getInfo",
            metadata |->
                [f \in MetaFields |->
                    IF f \in {"creationDate", "modificationDate"}
                    THEN IsoOrNull(Accessed(doc.meta[f]))
                    ELSE Accessed(doc.meta[f])],
            technicalInfo |->
                [version |-> "PDF 1.4",
                 isEncrypted |-> doc.isEncrypted,
                 hasAcroForm |-> doc.getForm.kind = "value"],
            pageStatistics |->
                [totalPages |-> pageCount,
                 landscapePages |-> Cardinality({k \in 1..Len(pageInfo) : IsLandscape(pageInfo[k])}),
                 portraitPages |-> Cardinality({k \in 1..Len(pageInfo) : IsPortrait(pageInfo[k])}),
                 rotatedPages |-> Cardinality({k \in 1..Len(pageInfo) : IsRotated(pageInfo[k])}),
                 hasUniformSize |-> Len(uniqueSizes) = 1,
                 uniqueSizes |-> uniqueSizes],
            pageDetails |-> pageInfo],
        pairedItem |-> index]

----------------------------------------------------------------------------
(* PdfLib.execute *)

\* items[itemIndex] with its parameters
Cur == items[itemIndex + 1]

\* item.binary[binaryPropertyName]
Attachment == Cur.binary[Cur.binaryPropertyName]

\* pdfDoc.getPageCount()
totalPages == Len(pdfDoc.pages)

Bytes(via, data) == [via |-> via, length |-> data.doc.bytes]

\* variant: pdfChunks is shared by the passes of the loop
Advance_KeepsChunks ==
    /\ itemIndex' = itemIndex + 1
    /\ pc' = "item"
    /\ pdfDoc' = NoDoc
    /\ fileBytes' = NoBytes
    /\ pdfChunks' = pdfChunks
    /\ i' = 0
    /\ pageGroups' = <<>>
    /\ error' = NoError

\* variant: fileBytes is declared outside the loop and keeps its value
Advance_KeepsBytes ==
    /\ itemIndex' = itemIndex + 1
    /\ pc' = "item"
    /\ pdfDoc' = NoDoc
    /\ fileBytes' = fileBytes
    /\ pdfChunks' = <<>>
    /\ i' = 0
    /\ pageGroups' = <<>>
    /\ error' = NoError

\* the end of one pass of the for loop over the items
Advance ==
    /\ itemIndex' = itemIndex + 1
    /\ pc' = "item"
    /\ pdfDoc' = NoDoc
    /\ fileBytes' = NoBytes
    /\ pdfChunks' = <<>>
    /\ i' = 0
    /\ pageGroups' = <<>>
    /\ error' = NoError

\* throw inside the try block
Raise(message) == pc' = "catch" /\ error' = message

\* the calls ops are made, in this order, for the current item
Log(ops) == calls' = calls \o [k \in 1..Len(ops) |-> [item |-> itemIndex, op |-> ops[k]]]

\* the reads and loads tried for an attachment: the filesystem first, the
\* buffer of the host when that fails
LoadCalls(data) ==
    (IF data.fs = "readFails" THEN <<"readFileSync">>
     ELSE <<"readFileSync", "load">>)
    \o (IF data.fs = "ok" THEN <<>>
        ELSE IF data.buf = "readFails" THEN <<"getBinaryDataBuffer">>
        ELSE <<"getBinaryDataBuffer", "load">>)

\* the binary check and the load through the filesystem, then the buffer
LoadItem ==
    /\ pc = "item" /\ itemIndex < Len(items)
    /\ IF Cur.binaryPropertyName \notin DOMAIN Cur.binary
       THEN /\ Raise(MissingInputError(Cur.binaryPropertyName))
            /\ Log(<<"getNodeParameter">>)
            /\ UNCHANGED <<pdfDoc, fileBytes>>
       ELSE IF Attachment.fs = "ok"
       THEN /\ pdfDoc' = Attachment.doc
            /\ fileBytes' = Bytes("fs", Attachment)
            /\ pc' = "switch"
            /\ Log(<<"getNodeParameter">> \o LoadCalls(Attachment))
            /\ UNCHANGED error
       ELSE IF Attachment.buf = "ok"
       THEN /\ pdfDoc' = Attachment.doc
            /\ fileBytes' = Bytes("buffer", Attachment)
            /\ pc' = "switch"
            /\ Log(<<"getNodeParameter">> \o LoadCalls(Attachment))
            /\ UNCHANGED error
       ELSE /\ Raise(LoadFailureError)
            /\ Log(<<"getNodeParameter">> \o LoadCalls(Attachment))
            /\ pdfDoc' = NoDoc
            /\ fileBytes' = IF Attachment.buf = "loadFails"
                            THEN Bytes("buffer", Attachment)
                            ELSE IF Attachment.fs = "loadFails"
                            THEN Bytes("fs", Attachment)
                            ELSE NoBytes
    /\ UNCHANGED <<items, continueOnFail, itemIndex, returnData, pdfChunks, i,
                   pageGroups, thrown>>
    /\ UNCHANGED <<fnvars, splitvars>>

\* case 'getInfo'
GetInfo ==
    /\ pc = "switch" /\ Cur.operation = "getInfo"
    /\ returnData' = Append(returnData,
                            InfoRecord(pdfDoc, Attachment, fileBytes, itemIndex))
    /\ Log(<<"push">>)
    /\ Advance
    /\ UNCHANGED <<items, continueOnFail, thrown>>
    /\ UNCHANGED <<fnvars, splitvars>>

\* variant: the output document is created before the expression is parsed
StartSplit_CreateFirst ==
    /\ pc = "switch" /\ Cur.operation = "split"
    /\ IF Cur.splitMode = "chunkSize"
       THEN /\ i' = 0
            /\ pc' = "chunkLoop"
            /\ UNCHANGED <<pageGroups, error>>
       ELSE IF Cur.splitMode = "pageRanges"
       THEN LET result == parsePageRanges(Cur.pageRanges, totalPages) IN
            IF "error" \in DOMAIN result
            THEN /\ Raise(result.error)
                 /\ UNCHANGED <<i, pageGroups>>
            ELSE /\ pageGroups' = groupConsecutivePages(result.pages)
                 /\ pc' = "groupLoop"
                 /\ UNCHANGED <<i, error>>
       ELSE /\ pc' = "push"
            /\ UNCHANGED <<i, pageGroups, error>>
    /\ pdfChunks' = <<>>
    /\ Log(<<"getNodeParameter", "create">>)
    /\ UNCHANGED <<items, continueOnFail, itemIndex, returnData, pdfDoc, fileBytes,
                   thrown>>
    /\ UNCHANGED <<fnvars, splitvars>>

\* case 'split' up to the first loop: the mode is read, and in range mode
\* the expression is parsed and grouped
StartSplit ==
    /\ pc = "switch" /\ Cur.operation = "split"
    /\ IF Cur.splitMode = "chunkSize"
       THEN /\ i' = 0
            /\ pc' = "chunkLoop"
            /\ UNCHANGED <<pageGroups, error>>
       ELSE IF Cur.splitMode = "pageRanges"
       THEN LET result == parsePageRanges(Cur.pageRanges, totalPages) IN
            IF "error" \in DOMAIN result
            THEN /\ Raise(result.error)
                 /\ UNCHANGED <<i, pageGroups>>
            ELSE /\ pageGroups' = groupConsecutivePages(result.pages)
                 /\ pc' = "groupLoop"
                 /\ UNCHANGED <<i, error>>
       ELSE /\ pc' = "push"
            /\ UNCHANGED <<i, pageGroups, error>>
    /\ pdfChunks' = <<>>
    /\ Log(<<"getNodeParameter">>)
    /\ UNCHANGED <<items, continueOnFail, itemIndex, returnData, pdfDoc, fileBytes,
                   thrown>>
    /\ UNCHANGED <<fnvars, splitvars>>

\* an operation the switch has no case for: nothing is pushed
NoCase ==
    /\ pc = "switch" /\ Cur.operation \notin {"getInfo", "split"}
    /\ Advance
    /\ UNCHANGED <<items, continueOnFail, returnData, thrown, calls>>
    /\ UNCHANGED <<fnvars, splitvars>>

\* one pass of for (let i = 0; i < totalPages; i += chunkSize)
ChunkIteration ==
    /\ pc = "chunkLoop" /\ i < totalPages
    /\ Len(pdfChunks) < totalPages + MaxSpin
    /\ LET end == ChunkEnd(i, Cur.chunkSize, totalPages)
           indices == ArrayFrom(end - i, i)
       IN IF IndicesInRange(pdfDoc, indices)
          THEN /\ pdfChunks' = Append(pdfChunks,
                                  [data |-> SaveBase64(CopyPages(pdfDoc, indices)),
                                   pageRange |-> ChunkLabel(i, end)])
               /\ i' = i + Cur.chunkSize
               /\ Log(<<"create", "copyPages", "save">>)
               /\ UNCHANGED <<pc, error>>
          ELSE /\ Raise(CopyError)
               /\ Log(<<"create", "copyPages">>)
               /\ UNCHANGED <<pdfChunks, i>>
    /\ UNCHANGED <<items, continueOnFail, itemIndex, returnData, pdfDoc, fileBytes,
                   pageGroups, thrown>>
    /\ UNCHANGED <<fnvars, splitvars>>

\* one pass of for (const group of pageGroups)
GroupIteration ==
    /\ pc = "groupLoop" /\ pageGroups # <<>>
    /\ LET group == Head(pageGroups)
           pageIndices == PageIndices(group)
       IN IF IndicesInRange(pdfDoc, pageIndices)
          THEN /\ pdfChunks' = Append(pdfChunks,
                                  [data |-> SaveBase64(CopyPages(pdfDoc, pageIndices)),
                                   pageRange |-> GroupLabel(group)])
               /\ pageGroups' = Tail(pageGroups)
               /\ Log(<<"create", "copyPages", "save">>)
               /\ UNCHANGED <<pc, error>>
          ELSE /\ Raise(CopyError)
               /\ Log(<<"create", "copyPages">>)
               /\ UNCHANGED <<pdfChunks, pageGroups>>
    /\ UNCHANGED <<items, continueOnFail, itemIndex, returnData, pdfDoc, fileBytes,
                   i, thrown>>
    /\ UNCHANGED <<fnvars, splitvars>>

\* the loop of the split has ended, or the mode has no branch
LoopDone ==
    \/ pc = "chunkLoop" /\ ~(i < totalPages)
    \/ pc = "groupLoop" /\ pageGroups = <<>>
    \/ pc = "push"

\* returnData.push of the split record
PushSplit ==
    /\ LoopDone
    /\ returnData' = Append(returnData,
                            SplitRecord(pdfChunks, Cur.splitMode,
                                        Attachment.fileName, itemIndex))
    /\ Log(<<"push">>)
    /\ Advance
    /\ UNCHANGED <<items, continueOnFail, thrown>>
    /\ UNCHANGED <<fnvars, splitvars>>

\* catch (error): an error record, or the error thrown out of execute
Catch ==
    /\ pc = "catch"
    /\ IF continueOnFail
       THEN /\ returnData' = Append(returnData,
                                    ErrorRecord(error, fileBytes, itemIndex))
            /\ Log(<<"push">>)
            /\ Advance
            /\ UNCHANGED thrown
       ELSE /\ thrown' = NodeOperationError(error, itemIndex)
            /\ pc' = "thrown"
            /\ Log(<<"throw">>)
            /\ UNCHANGED <<returnData, itemIndex, pdfDoc, fileBytes, pdfChunks, i,
                           pageGroups, error>>
    /\ UNCHANGED <<items, continueOnFail>>
    /\ UNCHANGED <<fnvars, splitvars>>

\* return [returnData]
Return ==
    /\ pc = "item" /\ itemIndex >= Len(items)
    /\ pc' = "returned"
    /\ UNCHANGED <<items, continueOnFail, itemIndex, returnData, pdfDoc, fileBytes,
                   pdfChunks, i, pageGroups, error, thrown, calls>>
    /\ UNCHANGED <<fnvars, splitvars>>

----------------------------------------------------------------------------
(* Inputs of PdfLib.execute *)

\* an attachment both transports can load
Loadable(fileName, doc) == BinaryData(fileName, doc, "ok", "ok")

ChunkSizes == (0 - 1)..MaxChunkSize

\* range expressions tried by execute: the short ones and the samples
ExecSpecs == {sp \in Strings : Len(sp) < MaxLen} \cup SampleSpecs \cup {ExampleSpec}

ChunkItems ==
    {Item(Binary("data", Loadable(name, Doc(n, "plain"))), "split", "chunkSize",
          cs, ExampleSpec) :
        n \in 0..MaxPages, cs \in ChunkSizes, name \in FileNames}

RangeItems ==
    {Item(Binary("data", Loadable(PlainName, Doc(n, "plain"))), "split",
          "pageRanges", 1, sp) :
        n \in 0..MaxPages, sp \in ExecSpecs}

ExampleItems ==
    {Item(Binary("data", Loadable(PlainName, Doc(ExampleTotal, "plain"))), "split",
          "chunkSize", 3, ExampleSpec),
     Item(Binary("data", Loadable(DoubleName, Doc(ExampleTotal, "plain"))), "split",
          "pageRanges", 1, ExampleSpec),
     Item(Binary("data", Loadable(PlainName, Doc(ExampleTotal, "plain"))), "split",
          "pageRanges", 1, AdjacentSpec),
     Item(Binary("data", Loadable(PlainName, Doc(ExampleTotal, "plain"))), "split",
          "pageRanges", 1, AdjacentSpecSwapped)}

InfoItems ==
    {Item(Binary("data", Loadable(name, Doc(n, shape))), "getInfo", "chunkSize",
          1, ExampleSpec) :
        n \in 0..MaxPages, shape \in {"plain", "bare", "torn", "broken"},
        name \in FileNames}

\* getInfo on documents with every combination of metadata outcomes
MetaItems ==
    {Item(Binary("data", Loadable(PlainName, DocWithMeta(m))), "getInfo",
          "chunkSize", 1, ExampleSpec) :
        m \in MetaMaps}

\* items whose attachment is missing or cannot be loaded, or whose
\* operation or mode the node does not know
OddItems ==
    {Item(NoBinary, op, "chunkSize", 1, ExampleSpec) : op \in {"getInfo", "split"}}
    \cup {Item(Binary("file", Loadable(PlainName, Doc(1, "plain"))), "split",
               "chunkSize", 1, ExampleSpec)}
    \cup {Item(Binary("data", BinaryData(PlainName, Doc(2, "plain"), fs, buf)),
               "split", "chunkSize", 1, ExampleSpec) :
            fs \in {"ok", "readFails", "loadFails"},
            buf \in {"ok", "readFails", "loadFails"}}
    \cup {Item(Binary("data", Loadable(PlainName, Doc(n, "locked"))), "split",
               "chunkSize", 1, ExampleSpec) :
            n \in 1..2}
    \cup {Item(Binary("data", Loadable(PlainName, Doc(2, "plain"))), "merge",
               "chunkSize", 1, ExampleSpec),
          Item(Binary("data", Loadable(PlainName, Doc(2, "plain"))), "split",
               "everyPage", 1, ExampleSpec)}

SingleItems ==
    ChunkItems \cup RangeItems \cup ExampleItems \cup InfoItems \cup MetaItems
    \cup OddItems

\* items combined into longer batches
BatchItems ==
    {Item(NoBinary, "split", "chunkSize", 1, ExampleSpec),
     Item(Binary("data", BinaryData(PlainName, Doc(2, "plain"), "readFails",
                                    "loadFails")),
          "getInfo", "chunkSize", 1, ExampleSpec),
     Item(Binary("data", Loadable(PlainName, Doc(3, "plain"))), "split",
          "chunkSize", 2, ExampleSpec),
     Item(Binary("data", Loadable(PlainName, Doc(3, "plain"))), "split",
          "pageRanges", 1, <<"3", ",", "1">>),
     Item(Binary("data", Loadable(PlainName, Doc(3, "plain"))), "split",
          "pageRanges", 1, <<"4">>),
     Item(Binary("data", Loadable(NoName, Doc(1, "bare"))), "getInfo",
          "chunkSize", 1, ExampleSpec),
     Item(Binary("data", Loadable(PlainName, Doc(2, "plain"))), "merge",
          "chunkSize", 1, ExampleSpec)}

RECURSIVE Batches(_)
Batches(n) ==
    IF n = 0 THEN {<<>>}
    ELSE {Append(b, it) : b \in Batches(n - 1), it \in BatchItems}

InputBatches ==
    {<<>>} \cup {<<it>> : it \in SingleItems}
    \cup UNION {Batches(n) : n \in 2..MaxItems}

FnIdle ==
    /\ fn = "none"
    /\ fnpc = "idle"
    /\ rangesString = <<>>
    /\ totalPagesArg = 0
    /\ pagesArg = <<>>
    /\ parseResult = NoResult
    /\ groupResult = NoResult

Init ==
    /\ items \in InputBatches
    /\ continueOnFail \in BOOLEAN
    /\ itemIndex = 0
    /\ pc = "item"
    /\ returnData = <<>>
    /\ pdfDoc = NoDoc
    /\ fileBytes = NoBytes
    /\ pdfChunks = <<>>
    /\ i = 0
    /\ pageGroups = <<>>
    /\ error = NoError
    /\ thrown = NoThrown
    /\ calls = <<>>
    /\ SplitInit("item")
    /\ FnIdle

Next ==
    \/ LoadItem
    \/ GetInfo
    \/ StartSplit
    \/ NoCase
    \/ ChunkIteration
    \/ GroupIteration
    \/ PushSplit
    \/ Catch
    \/ Return

Spec == Init /\ [][Next]_vars

----------------------------------------------------------------------------
(* SplitPdf.execute, run on the same items once PdfLib.execute is over *)

\* PdfLib.execute has returned or thrown
PdfLibOver == pc \in {"returned", "thrown"}

\* items[itemIndex] of SplitPdf.execute with its parameters
SplitCur == items[splitItemIndex + 1]

\* item.binary[binaryPropertyName]
SplitAttachment == SplitCur.binary[SplitCur.binaryPropertyName]

\* PDFDocument.load(Buffer.from(data, 'base64')): the inline data is what
\* the buffer of the host holds, and without ignoreEncryption the engine
\* refuses an encrypted document
SplitLoads(data) == data.buf = "ok" /\ ~data.doc.isEncrypted

SplitLoadError == <<"PDFDocument.load failed">>

\* pdfDoc.getPageCount()
SplitTotalPages == Len(splitPdfDoc.pages)

\* variant: the window end is not clamped to the page count
SplitChunkEnd_Unclamped(from, chunkSize, total) == from + chunkSize

\* Math.min(i + chunkSize, totalPages)
SplitChunkEnd(from, chunkSize, total) == Min(from + chunkSize, total)

\* `${i + 1}-${end}`
SplitChunkLabel(from, end) == NumToString(from + 1) \o <<"-">> \o NumToString(end)

\* `pdf${idx + 1}`
SplitBinaryKey(idx) == <<"p", "d", "f">> \o NumToString(idx + 1)

\* `split_${idx + 1}.pdf`
SplitFileName(idx) ==
    <<"s", "p", "l", "i", "t", "_">> \o NumToString(idx + 1) \o DotPdf

\* pdfChunks.reduce((acc, chunk, idx) => ..., {}) from position idx on
RECURSIVE SplitBinaryReduce(_, _, _)
SplitBinaryReduce(chunks, idx, acc) ==
    IF idx >= Len(chunks) THEN acc
    ELSE SplitBinaryReduce(chunks, idx + 1,
             (SplitBinaryKey(idx) :> [data |-> chunks[idx + 1].data,
                                      fileName |-> SplitFileName(idx),
                                      mimeType |-> "application/pdf"]) @@ acc)

SplitPdfRecord(chunks, index) ==
    [json |-> [count |-> Len(chunks),
               pageRanges |-> [k \in 1..Len(chunks) |-> chunks[k].pageRange]],
     binary |-> SplitBinaryReduce(chunks, 0, NoBinary),
     pairedItem |-> index]

SplitErrorRecord(message, index) ==
    [json |-> [error |-> message], pairedItem |-> index]

\* the end of one pass of the for loop over the items
SplitAdvance ==
    /\ splitItemIndex' = splitItemIndex + 1
    /\ splitPc' = "item"
    /\ splitPdfDoc' = NoDoc
    /\ splitPdfChunks' = <<>>
    /\ splitI' = 0
    /\ splitError' = NoError

\* the parameters, the binary check and the load
SplitLoadItem ==
    /\ PdfLibOver
    /\ splitPc = "item" /\ splitItemIndex < Len(items)
    /\ IF SplitCur.binaryPropertyName \notin DOMAIN SplitCur.binary
       THEN /\ splitPc' = "catch"
            /\ splitError' = MissingInputError(SplitCur.binaryPropertyName)
            /\ UNCHANGED splitPdfDoc
       ELSE IF SplitLoads(SplitAttachment)
       THEN /\ splitPdfDoc' = SplitAttachment.doc
            /\ splitPc' = "chunkLoop"
            /\ UNCHANGED splitError
       ELSE /\ splitPc' = "catch"
            /\ splitError' = SplitLoadError
            /\ UNCHANGED splitPdfDoc
    /\ splitPdfChunks' = <<>>
    /\ splitI' = 0
    /\ UNCHANGED <<splitItemIndex, splitReturnData, splitThrown>>
    /\ UNCHANGED <<fnvars, execvars>>

\* one pass of for (let i = 0; i < totalPages; i += chunkSize)
SplitChunkIteration ==
    /\ splitPc = "chunkLoop" /\ splitI < SplitTotalPages
    /\ Len(splitPdfChunks) < SplitTotalPages + MaxSpin
    /\ LET end == SplitChunkEnd(splitI, SplitCur.chunkSize, SplitTotalPages)
           indices == ArrayFrom(end - splitI, splitI)
       IN IF IndicesInRange(splitPdfDoc, indices)
          THEN /\ splitPdfChunks' =
                      Append(splitPdfChunks,
                             [data |-> SaveBase64(CopyPages(splitPdfDoc, indices)),
                              pageRange |-> SplitChunkLabel(splitI, end)])
               /\ splitI' = splitI + SplitCur.chunkSize
               /\ UNCHANGED <<splitPc, splitError>>
          ELSE /\ splitPc' = "catch"
               /\ splitError' = CopyError
               /\ UNCHANGED <<splitPdfChunks, splitI>>
    /\ UNCHANGED <<splitItemIndex, splitReturnData, splitPdfDoc, splitThrown>>
    /\ UNCHANGED <<fnvars, execvars>>

\* returnData.push of the record of the item
SplitPush ==
    /\ splitPc = "chunkLoop" /\ ~(splitI < SplitTotalPages)
    /\ splitReturnData' = Append(splitReturnData,
                                 SplitPdfRecord(splitPdfChunks, splitItemIndex))
    /\ SplitAdvance
    /\ UNCHANGED splitThrown
    /\ UNCHANGED <<fnvars, execvars>>

\* catch (error): an error record, or the error thrown out of execute
SplitCatch ==
    /\ splitPc = "catch"
    /\ IF continueOnFail
       THEN /\ splitReturnData' = Append(splitReturnData,
                                         SplitErrorRecord(splitError, splitItemIndex))
            /\ SplitAdvance
            /\ UNCHANGED splitThrown
       ELSE /\ splitThrown' = NodeOperationError(splitError, splitItemIndex)
            /\ splitPc' = "thrown"
            /\ UNCHANGED <<splitReturnData, splitItemIndex, splitPdfDoc,
                           splitPdfChunks, splitI, splitError>>
    /\ UNCHANGED <<fnvars, execvars>>

\* return [returnData]
SplitReturn ==
    /\ PdfLibOver
    /\ splitPc = "item" /\ splitItemIndex >= Len(items)
    /\ splitPc' = "returned"
    /\ UNCHANGED <<splitItemIndex, splitReturnData, splitPdfDoc, splitPdfChunks,
                   splitI, splitError, splitThrown>>
    /\ UNCHANGED <<fnvars, execvars>>

NextBoth ==
    \/ LoadItem
    \/ GetInfo
    \/ StartSplit
    \/ NoCase
    \/ ChunkIteration
    \/ GroupIteration
    \/ PushSplit
    \/ Catch
    \/ Return
    \/ SplitLoadItem
    \/ SplitChunkIteration
    \/ SplitPush
    \/ SplitCatch
    \/ SplitReturn

\* both nodes on the same input, the PdfLib node first
SpecBoth == Init /\ [][NextBoth]_vars

----------------------------------------------------------------------------
(* Properties of parsePageRanges and groupConsecutivePages (SpecFn) *)

ParseReturned == fn = "parse" /\ fnpc = "returned"

ParseOk == ParseReturned /\ "pages" \in DOMAIN parseResult

ParseFailed == ParseReturned /\ "error" \in DOMAIN parseResult

StrictlyAscending(p) == \A k \in 1..(Len(p) - 1) : p[k] < p[k + 1]

\* the text of a decimal integer: one or more digits and nothing else
IsIntText(s) == s # <<>> /\ \A k \in 1..Len(s) : IsDigit(s[k])

RECURSIVE DecValue(_)
DecValue(s) ==
    IF s = <<>> THEN 0
    ELSE 10 * DecValue(SubSeq(s, 1, Len(s) - 1)) + DigitVal(s[Len(s)])

\* the comma-separated tokens of the expression, surrounding spaces removed
Tokens(s) == Ranges(s)

HasDash(tok) == Includes(tok, "-")

\* tok is "a-b" for two integer texts a and b, cut at position k
IsRangeTextAt(tok, k) ==
    /\ tok[k] = "-"
    /\ IsIntText(Trim(SubSeq(tok, 1, k - 1)))
    /\ IsIntText(Trim(SubSeq(tok, k + 1, Len(tok))))

IsRangeText(tok) == \E k \in 1..Len(tok) : IsRangeTextAt(tok, k)

RangeLo(tok) ==
    LET k == CHOOSE j \in 1..Len(tok) : IsRangeTextAt(tok, j)
    IN DecValue(Trim(SubSeq(tok, 1, k - 1)))

RangeHi(tok) ==
    LET k == CHOOSE j \in 1..Len(tok) : IsRangeTextAt(tok, j)
    IN DecValue(Trim(SubSeq(tok, k + 1, Len(tok))))

ValidRangeToken(tok, total) ==
    /\ IsRangeText(tok)
    /\ 1 <= RangeLo(tok) /\ RangeLo(tok) <= RangeHi(tok) /\ RangeHi(tok) <= total

ValidPageToken(tok, total) ==
    IsIntText(tok) /\ 1 <= DecValue(tok) /\ DecValue(tok) <= total

ValidToken(tok, total) == ValidRangeToken(tok, total) \/ ValidPageToken(tok, total)

Expansion(tok) ==
    IF IsRangeText(tok) THEN RangeLo(tok)..RangeHi(tok) ELSE {DecValue(tok)}

AllTokensValid(s, total) ==
    \A k \in 1..Len(Tokens(s)) : ValidToken(Tokens(s)[k], total)

RequestedPages(s) == UNION {Expansion(Tokens(s)[k]) : k \in 1..Len(Tokens(s))}

\* C1: whenever parsePageRanges returns pages, every page is an integer in
\* 1..totalPages and the sequence is strictly ascending (hence free of
\* duplicates).
C1_PagesWithinAscending ==
    ParseOk =>
        /\ \A k \in 1..Len(parseResult.pages) :
              parseResult.pages[k] \in 1..totalPagesArg
        /\ StrictlyAscending(parseResult.pages)

\* the accumulated pages had a duplicate and were out of order
C1_Witness ==
    /\ ParseOk
    /\ Len(parseResult.pages) >= 2
    /\ LET raw == ParseLoop(Ranges(rangesString), 1, <<>>, totalPagesArg).pages
       IN Len(raw) > Len(parseResult.pages) /\ ~StrictlyAscending(raw)

\* a lenient token was accepted and still gave pages within bounds
C1_WitnessLenient ==
    /\ ParseOk
    /\ ~AllTokensValid(rangesString, totalPagesArg)
    /\ Len(parseResult.pages) >= 2

\* C2: for an expression whose tokens are all valid, parsePageRanges returns
\* exactly the union of the tokens' expansions in ascending order, and
\* "1-3,5,7-10" of 10 pages gives 1,2,3,5,7,8,9,10.
C2_UnionOfExpansions ==
    /\ (ParseReturned /\ AllTokensValid(rangesString, totalPagesArg)) =>
          /\ ParseOk
          /\ parseResult.pages = SetToSeq(RequestedPages(rangesString))
    /\ (ParseReturned /\ rangesString = ExampleSpec /\ totalPagesArg = ExampleTotal) =>
          parseResult = [pages |-> ExamplePages]

C2_Witness ==
    /\ ParseOk
    /\ rangesString = ExampleSpec
    /\ AllTokensValid(rangesString, totalPagesArg)
    /\ parseResult.pages = ExamplePages

\* a second case: an overlapping range and page in reverse order
C2_WitnessOverlap ==
    /\ ParseOk
    /\ AllTokensValid(rangesString, totalPagesArg)
    /\ Len(Tokens(rangesString)) = 2
    /\ HasDash(Tokens(rangesString)[2])

\* the tokens before position k are all valid, so the loop reaches token k
Reaches(s, total, k) == \A j \in 1..(k - 1) : ValidToken(Tokens(s)[j], total)

\* C3: a token holding "-" is split into two integer substrings and fails
\* with the invalid-range error when a side is not an integer, start < 1,
\* end > totalPages or start > end; only otherwise it expands to start..end.
C3_RangeTokenChecked ==
    ParseReturned =>
        \A k \in 1..Len(Tokens(rangesString)) :
            LET tok == Tokens(rangesString)[k] IN
            (Reaches(rangesString, totalPagesArg, k) /\ HasDash(tok)) =>
                IF ValidRangeToken(tok, totalPagesArg)
                THEN ParseFailed \/ (RangeLo(tok)..RangeHi(tok)) \subseteq
                                       {parseResult.pages[j] :
                                           j \in 1..Len(parseResult.pages)}
                ELSE parseResult = RangeError(tok, totalPagesArg)

\* C4: a token without "-" fails with the invalid-page error when it is not
\* an integer, is < 1 or is > totalPages; only otherwise it contributes
\* that page.
C4_PageTokenChecked ==
    ParseReturned =>
        \A k \in 1..Len(Tokens(rangesString)) :
            LET tok == Tokens(rangesString)[k] IN
            (Reaches(rangesString, totalPagesArg, k) /\ ~HasDash(tok)) =>
                IF ValidPageToken(tok, totalPagesArg)
                THEN ParseFailed \/ \E j \in 1..Len(parseResult.pages) :
                                       parseResult.pages[j] = DecValue(tok)
                ELSE parseResult = PageError(tok, totalPagesArg)

GroupReturned == fn = "group" /\ fnpc = "returned"

RECURSIVE Flatten(_)
Flatten(gs) == IF gs = <<>> THEN <<>> ELSE Head(gs) \o Flatten(Tail(gs))

IsRun(g) == g # <<>> /\ \A k \in 1..(Len(g) - 1) : g[k + 1] = g[k] + 1

\* C5: for a sorted duplicate-free input the groups concatenate back to the
\* input, each group is a run of consecutive integers, no group continues
\* the one before it, groups are ordered by first element; the empty input
\* gives no group and 1,2,3,5,7,8,9,10 gives [1,2,3],[5],[7,8,9,10].
C5_GroupsPartition ==
    GroupReturned =>
        /\ Flatten(groupResult) = pagesArg
        /\ \A g \in 1..Len(groupResult) : IsRun(groupResult[g])
        /\ \A g \in 1..(Len(groupResult) - 1) :
              /\ groupResult[g + 1][1] # groupResult[g][Len(groupResult[g])] + 1
              /\ groupResult[g][1] < groupResult[g + 1][1]
        /\ (pagesArg = <<>> => groupResult = <<>>)
        /\ (pagesArg = ExamplePages =>
               groupResult = <<<<1, 2, 3>>, <<5>>, <<7, 8, 9, 10>>>>)

C5_Witness ==
    /\ GroupReturned
    /\ pagesArg = ExamplePages
    /\ Len(groupResult) = 3

C5_WitnessEmpty == GroupReturned /\ pagesArg = <<>> /\ groupResult = <<>>

----------------------------------------------------------------------------
(* Properties of the split operation of PdfLib.execute (Spec) *)

IsSplitRecord(r) == "count" \in DOMAIN r.json

IsErrorRecord(r) == "error" \in DOMAIN r.json

SplitRecords == {returnData[k] : k \in {j \in 1..Len(returnData) :
                                           IsSplitRecord(returnData[j])}}

ItemOf(r) == items[r.pairedItem + 1]

\* the pages of the source document of the record's item
SourcePages(r) == ItemOf(r).binary[ItemOf(r).binaryPropertyName].doc.pages

ChunkRecords ==
    {r \in SplitRecords : ItemOf(r).splitMode = "chunkSize" /\ ItemOf(r).chunkSize >= 1}

RangeRecords == {r \in SplitRecords : ItemOf(r).splitMode = "pageRanges"}

\* the attachment names pdf1, pdf2, ...
OutputKey(k) == <<"p", "d", "f">> \o NumToString(k)

\* the pages of the k-th output document (k = 1, 2, ...) of a record
OutputPages(r, k) == r.binary[OutputKey(k)].data.base64.pdf

Ceil(a, b) == (a + b - 1) \div b

\* the page set the range expression of the record's item denotes
PageSetOf(r) ==
    LET res == parsePageRanges(ItemOf(r).pageRanges, Len(SourcePages(r)))
    IN {res.pages[k] : k \in 1..Len(res.pages)}

\* first pages of the maximal runs of S, ascending
RunStarts(S) == SetToSeq({p \in S : p - 1 \notin S})

\* last page of the maximal run of S that starts at p
RunLast(S, p) == CHOOSE q \in S : q >= p /\ (p..q) \subseteq S /\ q + 1 \notin S

\* The current item asks for chunks of a non-positive size
NonPositiveChunk ==
    /\ itemIndex < Len(items)
    /\ Cur.operation = "split" /\ Cur.splitMode = "chunkSize"
    /\ Cur.chunkSize <= 0

InvalidChunkSize == <<"InvalidChunkSize">>

\* C6: a chunk-mode split with chunkSize <= 0 is rejected with an
\* InvalidChunkSize error for that item: the chunk loop is never entered with
\* such a size, it never runs more passes than the document has pages, and no
\* split record is produced for it.
C6_NonPositiveChunkRejected ==
    /\ (NonPositiveChunk /\ pc \in {"chunkLoop", "catch"}) =>
          (pc = "catch" /\ error = InvalidChunkSize)
    /\ (pc = "chunkLoop" => Len(pdfChunks) <= totalPages)
    /\ \A r \in SplitRecords :
          ItemOf(r).splitMode = "chunkSize" => ItemOf(r).chunkSize >= 1

\* C7: for every split record, json.count, the length of json.pageRanges and
\* the number of attachments agree, the attachments are named pdf1..pdfN,
\* and N is the number of page groups in range mode and
\* ceil(totalPages / chunkSize) in chunk mode with chunkSize >= 1.
C7_OutputCount ==
    /\ \A r \in ChunkRecords \cup RangeRecords :
          /\ r.json.count = Len(r.json.pageRanges)
          /\ DOMAIN r.binary = {OutputKey(k) : k \in 1..r.json.count}
          /\ Cardinality(DOMAIN r.binary) = r.json.count
    /\ \A r \in RangeRecords : r.json.count = Len(RunStarts(PageSetOf(r)))
    /\ \A r \in ChunkRecords :
          r.json.count = Ceil(Len(SourcePages(r)), ItemOf(r).chunkSize)

\* a batch whose chunk split ends in a short chunk and whose range split
\* gives two groups
C7_Witness ==
    /\ pc = "returned"
    /\ \E r \in ChunkRecords :
          r.json.count >= 2 /\ Len(SourcePages(r)) % ItemOf(r).chunkSize # 0
    /\ \E r \in RangeRecords : r.json.count >= 2

\* "1-3","4-6","7-9","10-10"
ExampleChunkLabels ==
    <<<<"1", "-", "3">>, <<"4", "-", "6">>, <<"7", "-", "9">>,
      <<"1", "0", "-", "1", "0">>>>

\* C8: in chunk mode with chunkSize >= 1 the k-th output holds the source
\* pages with 0-based indices k*chunkSize .. min((k+1)*chunkSize, totalPages)-1
\* in source order and is labelled "s-e" with s = k*chunkSize+1 and
\* e = min((k+1)*chunkSize, totalPages); every output holds at most chunkSize
\* pages and only the last may hold fewer; 10 pages with chunkSize 3 give
\* "1-3","4-6","7-9","10-10".
C8_ChunkWindows ==
    \A r \in ChunkRecords :
        LET cs == ItemOf(r).chunkSize
            n == Len(SourcePages(r))
        IN /\ \A k \in 0..(r.json.count - 1) :
                 LET s == k * cs + 1
                     e == Min((k + 1) * cs, n)
                 IN /\ OutputKey(k + 1) \in DOMAIN r.binary
                    /\ OutputPages(r, k + 1) = SubSeq(SourcePages(r), s, e)
                    /\ r.json.pageRanges[k + 1] =
                          NumToString(s) \o <<"-">> \o NumToString(e)
                    /\ Len(OutputPages(r, k + 1)) <= cs
                    /\ (k < r.json.count - 1 => Len(OutputPages(r, k + 1)) = cs)
           /\ (n = ExampleTotal /\ cs = 3 => r.json.pageRanges = ExampleChunkLabels)

C8_Witness ==
    /\ pc = "returned"
    /\ \E r \in ChunkRecords :
          /\ Len(SourcePages(r)) = ExampleTotal
          /\ r.json.pageRanges = ExampleChunkLabels
          /\ Len(OutputPages(r, 4)) = 1

\* the pages of the outputs 1..n of a record, concatenated in output order
RECURSIVE Recombined(_, _)
Recombined(r, n) ==
    IF n = 0 THEN <<>> ELSE Recombined(r, n - 1) \o OutputPages(r, n)

RECURSIVE PageTotal(_, _)
PageTotal(r, n) ==
    IF n = 0 THEN 0 ELSE PageTotal(r, n - 1) + Len(OutputPages(r, n))

\* C9: for every document and chunkSize >= 1, the pages of the outputs
\* concatenated in output order are the original page sequence, and the
\* page counts of the outputs sum to totalPages.
C9_ChunkRoundTrip ==
    \A r \in ChunkRecords :
        /\ \A k \in 1..r.json.count : OutputKey(k) \in DOMAIN r.binary
        /\ Recombined(r, r.json.count) = SourcePages(r)
        /\ PageTotal(r, r.json.count) = Len(SourcePages(r))

\* a split into several chunks of several pages, the last one shorter
C9_Witness ==
    /\ pc = "returned"
    /\ \E r \in ChunkRecords :
          /\ ItemOf(r).chunkSize >= 2
          /\ r.json.count >= 2
          /\ Len(SourcePages(r)) % ItemOf(r).chunkSize # 0

\* "1-3","5","7-10"
ExampleRangeLabels ==
    <<<<"1", "-", "3">>, <<"5">>, <<"7", "-", "1", "0">>>>

\* C10: in range mode the k-th output holds exactly the pages of the k-th
\* page group (source index = page number - 1) in ascending order, and is
\* labelled "p" for a one-page group and "first-last" otherwise; 10 pages
\* with "1-3,5,7-10" give 3 outputs labelled "1-3","5","7-10".
C10_RangeOutputs ==
    \A r \in RangeRecords :
        LET S == PageSetOf(r)
            starts == RunStarts(S)
        IN /\ r.json.count = Len(starts)
           /\ \A k \in 1..Len(starts) :
                 LET first == starts[k]
                     last == RunLast(S, first)
                 IN /\ OutputKey(k) \in DOMAIN r.binary
                    /\ OutputPages(r, k) = SubSeq(SourcePages(r), first, last)
                    /\ r.json.pageRanges[k] =
                          IF first = last THEN NumToString(first)
                          ELSE NumToString(first) \o <<"-">> \o NumToString(last)
           /\ (ItemOf(r).pageRanges = ExampleSpec /\ Len(SourcePages(r)) = ExampleTotal
                  => r.json.pageRanges = ExampleRangeLabels)

C10_Witness ==
    /\ pc = "returned"
    /\ \E r \in RangeRecords :
          /\ ItemOf(r).pageRanges = ExampleSpec
          /\ r.json.pageRanges = ExampleRangeLabels
          /\ Len(OutputPages(r, 3)) = 4

----------------------------------------------------------------------------
(* Properties of the error handling of PdfLib.execute (Spec) *)

\* the attachment named by the item's binary property is absent
MissingBinary(item) == item.binaryPropertyName \notin DOMAIN item.binary

\* neither transport yields a document
Unloadable(item) ==
    /\ ~MissingBinary(item)
    /\ item.binary[item.binaryPropertyName].fs # "ok"
    /\ item.binary[item.binaryPropertyName].buf # "ok"

\* the range expression of a range-mode split is refused for the document
RangesRefused(item) ==
    /\ ~MissingBinary(item) /\ ~Unloadable(item)
    /\ item.operation = "split" /\ item.splitMode = "pageRanges"
    /\ "error" \in DOMAIN parsePageRanges(
           item.pageRanges, Len(item.binary[item.binaryPropertyName].doc.pages))

ItemFails(item) == MissingBinary(item) \/ Unloadable(item) \/ RangesRefused(item)

ErrorRecordsOf(k) ==
    {j \in 1..Len(returnData) :
        IsErrorRecord(returnData[j]) /\ returnData[j].pairedItem = k}

\* C11: an item-level failure (such as a missing binary property) gives,
\* with the continue-on-failure flag, an error record for that item after
\* which the next item is processed, and without the flag an error thrown by
\* the node that carries the index of the failing item.
C11_FailureHandled ==
    /\ pc = "catch" => ItemFails(Cur)
    /\ pc = "thrown" =>
          /\ ~continueOnFail
          /\ thrown.kind = "NodeOperationError"
          /\ thrown.itemIndex = itemIndex
          /\ ItemFails(items[thrown.itemIndex + 1])
    /\ \A k \in 0..(itemIndex - 1) :
          ItemFails(items[k + 1]) =>
              /\ continueOnFail
              /\ Cardinality(ErrorRecordsOf(k)) = 1
    /\ pc = "returned" => itemIndex = Len(items)

\* with the flag: the first item lacked its binary and got an error record,
\* the second item was processed after it
C11_Witness ==
    /\ pc = "returned" /\ continueOnFail
    /\ Len(items) = 2
    /\ MissingBinary(items[1])
    /\ ErrorRecordsOf(0) # {}
    /\ \E j \in 1..Len(returnData) :
          returnData[j].pairedItem = 1 /\ ~IsErrorRecord(returnData[j])

\* without the flag: the second item failed and its index was thrown
C11_WitnessThrown ==
    /\ pc = "thrown"
    /\ thrown.itemIndex = 1
    /\ MissingBinary(items[2])

\* the outputs of a chunk split of doc taken on its own, from index from on
RECURSIVE ChunksFrom(_, _, _)
ChunksFrom(doc, chunkSize, from) ==
    IF ~(from < Len(doc.pages)) THEN <<>>
    ELSE LET end == ChunkEnd(from, chunkSize, Len(doc.pages))
         IN <<[data |-> SaveBase64(CopyPages(doc, ArrayFrom(end - from, from))),
               pageRange |-> ChunkLabel(from, end)]>>
            \o ChunksFrom(doc, chunkSize, from + chunkSize)

\* the outputs of a range split of doc taken on its own
GroupChunks(doc, groups) ==
    [k \in 1..Len(groups) |->
        [data |-> SaveBase64(CopyPages(doc, PageIndices(groups[k]))),
         pageRange |-> GroupLabel(groups[k])]]

\* the bytes read for an attachment taken on its own
BytesAlone(data) ==
    IF data.fs = "ok" THEN Bytes("fs", data)
    ELSE IF data.buf \in {"ok", "loadFails"} THEN Bytes("buffer", data)
    ELSE IF data.fs = "loadFails" THEN Bytes("fs", data)
    ELSE NoBytes

HasCase(item) == item.operation \in {"getInfo", "split"}

\* the record of an item as a function of the item and its index alone
RecordAlone(item, k) ==
    IF MissingBinary(item)
    THEN ErrorRecord(MissingInputError(item.binaryPropertyName), NoBytes, k)
    ELSE LET data == item.binary[item.binaryPropertyName] IN
         IF Unloadable(item)
         THEN ErrorRecord(LoadFailureError, BytesAlone(data), k)
         ELSE IF item.operation = "getInfo"
         THEN InfoRecord(data.doc, data, BytesAlone(data), k)
         ELSE IF item.splitMode = "chunkSize"
         THEN SplitRecord(ChunksFrom(data.doc, item.chunkSize, 0), item.splitMode,
                          data.fileName, k)
         ELSE IF item.splitMode = "pageRanges"
         THEN LET res == parsePageRanges(item.pageRanges, Len(data.doc.pages)) IN
              IF "error" \in DOMAIN res
              THEN ErrorRecord(res.error, BytesAlone(data), k)
              ELSE SplitRecord(GroupChunks(data.doc, groupConsecutivePages(res.pages)),
                               item.splitMode, data.fileName, k)
         ELSE SplitRecord(<<>>, item.splitMode, data.fileName, k)

RecordsOf(k) == {j \in 1..Len(returnData) : returnData[j].pairedItem = k}

\* every record is the one its item gets on its own
RecordsAreOwn ==
    \A j \in 1..Len(returnData) :
        returnData[j] = RecordAlone(ItemOf(returnData[j]), returnData[j].pairedItem)

\* C12 as stated: in every batch each record depends on its own item only,
\* and a failing item never keeps another item from being processed.
C12_NeverBlocks ==
    /\ RecordsAreOwn
    /\ pc \in {"returned", "thrown"} =>
          \A k \in 0..(Len(items) - 1) :
              (HasCase(items[k + 1]) /\ ~ItemFails(items[k + 1])) =>
                  RecordsOf(k) # {}

\* C12 (amended): each record depends on its own item only; with the
\* continue-on-failure flag a failing item never keeps another item from
\* being processed; without the flag the first failing item ends the batch,
\* and the records of the items before it are as they would be without it.
C12_Isolated ==
    /\ RecordsAreOwn
    /\ (continueOnFail /\ pc = "returned") =>
          \A k \in 0..(Len(items) - 1) :
              HasCase(items[k + 1]) => Cardinality(RecordsOf(k)) = 1
    /\ pc = "thrown" =>
          /\ ~continueOnFail
          /\ \A k \in 0..(Len(items) - 1) :
                (ItemFails(items[k + 1]) => k >= itemIndex)
          /\ \A k \in 0..(itemIndex - 1) :
                HasCase(items[k + 1]) => Cardinality(RecordsOf(k)) = 1

\* a split went through and the item after it was refused: both have the
\* record they would have alone
C12_Witness ==
    /\ pc = "returned" /\ continueOnFail
    /\ Len(items) = 2
    /\ ~ItemFails(items[1]) /\ ItemFails(items[2])
    /\ IsSplitRecord(returnData[1])
    /\ IsErrorRecord(returnData[2])
    /\ returnData[2] = RecordAlone(items[2], 1)
    /\ returnData[1] = RecordAlone(items[1], 0)

\* a failing item followed by one that would succeed, with the flag set
C12_WitnessAfterFailure ==
    /\ pc = "returned" /\ continueOnFail
    /\ Len(items) = 2
    /\ ItemFails(items[1]) /\ ~ItemFails(items[2]) /\ HasCase(items[2])
    /\ Len(returnData) = 2

----------------------------------------------------------------------------
(* Properties of getInfo (Spec) *)

IsInfoRecord(r) == "pageDetails" \in DOMAIN r.json

InfoRecords == {returnData[k] : k \in {j \in 1..Len(returnData) :
                                          IsInfoRecord(returnData[j])}}

\* the document of the record's item
SourceDoc(r) == ItemOf(r).binary[ItemOf(r).binaryPropertyName].doc

\* letter size, portrait, no rotation
IsDefaultPage(p) ==
    /\ p.width = LetterWidth /\ p.height = LetterHeight
    /\ p.orientation = "portrait" /\ p.rotation = 0

\* C13: the pageDetails of every getInfo result has exactly pageCount
\* entries, entry number k (from 1) carrying pageNumber k, whether the
\* inspection of the pages succeeds, fails for single pages or fails as a
\* whole; the pages that could not be inspected get the default record.
C13_PageDetailsComplete ==
    \A r \in InfoRecords :
        /\ r.json.pageCount = Len(SourcePages(r))
        /\ Len(r.json.pageDetails) = r.json.pageCount
        /\ \A k \in 1..Len(r.json.pageDetails) :
              /\ r.json.pageDetails[k].pageNumber = k
              /\ (SourceDoc(r).getPages.kind = "throws"
                  \/ SourcePages(r)[k].size.kind = "throws")
                    => IsDefaultPage(r.json.pageDetails[k])

\* a result whose inspection failed as a whole, over several pages
C13_Witness ==
    \E r \in InfoRecords :
        /\ SourceDoc(r).getPages.kind = "throws"
        /\ r.json.pageCount >= 2
        /\ Len(r.json.pageDetails) = r.json.pageCount

\* a result where some pages could be inspected and others not
C13_WitnessSinglePages ==
    \E r \in InfoRecords :
        /\ SourceDoc(r).getPages.kind = "value"
        /\ \E k \in 1..Len(SourcePages(r)) : SourcePages(r)[k].size.kind = "throws"
        /\ \E k \in 1..Len(r.json.pageDetails) : ~IsDefaultPage(r.json.pageDetails[k])

----------------------------------------------------------------------------
(* Properties of parsePageRanges on whole expressions (SpecFn) *)

\* the expression without its space characters
RECURSIVE RemoveSpaces(_)
RemoveSpaces(s) ==
    IF s = <<>> THEN <<>>
    ELSE IF Head(s) = " " THEN RemoveSpaces(Tail(s))
    ELSE <<Head(s)>> \o RemoveSpaces(Tail(s))

\* success or error, and the pages on success
Outcome(res) == IF "pages" \in DOMAIN res THEN res ELSE [error |-> TRUE]

\* C14: spaces in a page-range expression are ignored: the expression and
\* the expression without its spaces give the same pages or both fail.
C14_SpacesIgnored ==
    ParseReturned =>
        Outcome(parseResult)
            = Outcome(parsePageRanges(RemoveSpaces(rangesString), totalPagesArg))

\* the position of the leftmost token that is not valid
LeftmostInvalid(s, total) ==
    CHOOSE k \in 1..Len(Tokens(s)) :
        /\ ~ValidToken(Tokens(s)[k], total)
        /\ \A j \in 1..(k - 1) : ValidToken(Tokens(s)[j], total)

\* the error the parser reports for a token
ErrorOf(tok, total) ==
    IF HasDash(tok) THEN RangeError(tok, total) ELSE PageError(tok, total)

\* C15: parsePageRanges is fail-fast: when some token of the expression is
\* invalid the result is the error of the leftmost invalid token and no
\* pages, and the empty expression is rejected with an error.
C15_FailFast ==
    /\ (ParseReturned /\ ~AllTokensValid(rangesString, totalPagesArg)) =>
          parseResult = ErrorOf(Tokens(rangesString)[LeftmostInvalid(rangesString,
                                                                     totalPagesArg)],
                                totalPagesArg)
    /\ (ParseReturned /\ rangesString = <<>>) => ParseFailed

\* the position of the leftmost token the code rejects
LeftmostRejected(s, total) ==
    CHOOSE k \in 1..Len(Ranges(s)) :
        /\ IF Includes(Ranges(s)[k], "-") THEN RangeRejected(Ranges(s)[k], total)
           ELSE PageRejected(Ranges(s)[k], total)
        /\ \A j \in 1..(k - 1) :
              ~(IF Includes(Ranges(s)[j], "-") THEN RangeRejected(Ranges(s)[j], total)
                ELSE PageRejected(Ranges(s)[j], total))

\* what the loop does hold to: the error is that of the leftmost token its
\* own tests reject
FailFastOnRejected ==
    ParseFailed =>
        parseResult = ErrorOf(Ranges(rangesString)[LeftmostRejected(rangesString,
                                                                    totalPagesArg)],
                              totalPagesArg)

----------------------------------------------------------------------------
(* Properties of the order of the steps of PdfLib.execute (Spec) *)

OutputOps == {"create", "copyPages", "save"}

\* the calls made for the item at 0-based position k
CallsOf(k) == {j \in 1..Len(calls) : calls[j].item = k}

ParseErrorRaised ==
    /\ pc = "catch"
    /\ error[1] \in {"Invalid page range: ", "Invalid page number: "}

\* C16: in range mode an error of the range parser ends the split of the
\* item before any output document is created: at no point of the execution
\* has a create, copyPages or save call been made for that item, and the
\* item has no split record and no output.
C16_RefusedBeforeOutput ==
    /\ ParseErrorRaised => (RangesRefused(Cur) /\ pdfChunks = <<>>)
    /\ \A k \in 0..(Len(items) - 1) :
          RangesRefused(items[k + 1]) =>
              /\ \A j \in CallsOf(k) : calls[j].op \notin OutputOps
              /\ \A j \in RecordsOf(k) :
                    /\ IsErrorRecord(returnData[j])
                    /\ "binary" \notin DOMAIN returnData[j]
              /\ itemIndex > k => (continueOnFail /\ RecordsOf(k) # {})

\* the parser has just refused the expression of a loaded document
C16_Witness ==
    /\ ParseErrorRaised
    /\ RangesRefused(Cur)
    /\ \E j \in CallsOf(itemIndex) : calls[j].op = "load"
    /\ \A j \in CallsOf(itemIndex) : calls[j].op \notin OutputOps

\* the batch went on after the refusal: the item before it made outputs,
\* the refused item none
C16_WitnessBatch ==
    /\ pc = "returned"
    /\ Len(items) = 2
    /\ RangesRefused(items[2])
    /\ \E j \in CallsOf(0) : calls[j].op = "create"
    /\ RecordsOf(1) # {}

----------------------------------------------------------------------------
(* Properties of the metadata of getInfo (Spec) *)

\* the value as the record carries it: dates as ISO text
Reported(f, outcome) ==
    IF f \in TextFields THEN outcome ELSE Value(<<"ISO", outcome.value>>)

\* a getInfo item whose document loads
InfoLoads(item) ==
    /\ item.operation = "getInfo"
    /\ ~MissingBinary(item) /\ ~Unloadable(item)

\* a metadata accessor never makes its item fail
MetadataNeverFatal ==
    /\ pc = "catch" => ~InfoLoads(Cur)
    /\ \A k \in 0..(itemIndex - 1) :
          InfoLoads(items[k + 1]) =>
              /\ Cardinality(RecordsOf(k)) = 1
              /\ \A j \in RecordsOf(k) : IsInfoRecord(returnData[j])

C17_WitnessEmptyText ==
    \E r \in InfoRecords :
        /\ SourceDoc(r).meta["title"] = Value("")
        /\ r.json.metadata["title"] = Null

\* the variables of one pass of the loop hold nothing of an earlier pass
FreshPass ==
    /\ pdfDoc = NoDoc /\ fileBytes = NoBytes /\ pdfChunks = <<>>
    /\ pageGroups = <<>> /\ i = 0 /\ error = NoError

----------------------------------------------------------------------------
(* Properties of the names of the split outputs (Spec) *)

\* the position of the last "." of the name, 0 when it has none
LastDot(name) ==
    LET dots == {k \in 1..Len(name) : name[k] = "."}
    IN IF dots = {} THEN 0 ELSE CHOOSE k \in dots : \A j \in dots : j <= k

\* the name without its extension
StripExt(name) ==
    IF LastDot(name) = 0 THEN name ELSE SubSeq(name, 1, LastDot(name) - 1)

\* the file name of the attachment of the record's item
SourceName(r) == ItemOf(r).binary[ItemOf(r).binaryPropertyName].fileName

\* _chunk_<n> in chunk mode, _pages_<label> in range mode
NameSuffix(r, idx) ==
    IF ItemOf(r).splitMode = "pageRanges"
    THEN <<"_", "p", "a", "g", "e", "s", "_">> \o r.json.pageRanges[idx + 1]
    ELSE <<"_", "c", "h", "u", "n", "k", "_">> \o NumToString(idx + 1)

\* C19: the file name of every split output is the original file name
\* without its extension, then _chunk_<n> (n the 1-based position) in chunk
\* mode or _pages_<label> in range mode, then ".pdf", also for names that
\* hold ".pdf" elsewhere than at the end.
C19_OutputNames ==
    \A r \in SplitRecords :
        SourceName(r) # <<>> =>
            \A idx \in 0..(r.json.count - 1) :
                r.binary[BinaryKey(idx)].fileName
                    = StripExt(SourceName(r)) \o NameSuffix(r, idx) \o DotPdf

----------------------------------------------------------------------------
(* Properties of the result of parsePageRanges (SpecFn) *)

\* C20: parsePageRanges returns either a page list or an error, never both
\* and never neither, and a page list it returns is never empty, so that the
\* grouping of a validated expression has at least one group, each of at
\* least one page: a range split that passes validation has an output.
C20_PagesOrError ==
    /\ ParseReturned => DOMAIN parseResult \in {{"pages"}, {"error"}}
    /\ ParseOk =>
          /\ parseResult.pages # <<>>
          /\ LET groups == groupConsecutivePages(parseResult.pages)
             IN /\ groups # <<>>
                /\ \A k \in 1..Len(groups) : groups[k] # <<>>

\* a single page accepted: the shortest page list, and one group
C20_Witness ==
    /\ ParseOk
    /\ Len(parseResult.pages) = 1
    /\ Len(Tokens(rangesString)) = 1
    /\ Len(groupConsecutivePages(parseResult.pages)) = 1

\* the empty expression: an error and no pages
C20_WitnessEmpty ==
    /\ ParseFailed
    /\ rangesString = <<>>
    /\ "pages" \notin DOMAIN parseResult

----------------------------------------------------------------------------
(* Properties of parsePageRanges under reordering of the tokens (SpecFn) *)

\* the tokens written as one expression, "," between them
RECURSIVE Join(_)
Join(toks) ==
    IF toks = <<>> THEN <<>>
    ELSE IF Len(toks) = 1 THEN toks[1]
    ELSE toks[1] \o <<",">> \o Join(Tail(toks))

\* the permutations of 1..n
Perms(n) == {p \in [1..n -> 1..n] : \A a, b \in 1..n : p[a] = p[b] => a = b}

\* "5,1-3"
SwappedSpec == <<"5", ",", "1", "-", "3">>

\* "1-3,5,5"
RepeatedSpec == <<"1", "-", "3", ",", "5", ",", "5">>

\* C21: for an expression whose tokens are all valid, the page list depends
\* on the set of tokens only: every permutation of the tokens and every
\* repetition of a token gives the same page list, and "5,1-3", "1-3,5" and
\* "1-3,5,5" give the same pages.
C21_TokenSetOnly ==
    (ParseReturned /\ AllTokensValid(rangesString, totalPagesArg)) =>
        LET toks == Tokens(rangesString) IN
        /\ \A p \in Perms(Len(toks)) :
              parsePageRanges(Join([k \in 1..Len(toks) |-> toks[p[k]]]),
                              totalPagesArg) = parseResult
        /\ \A k \in 1..Len(toks) :
              /\ parsePageRanges(Join(Append(toks, toks[k])), totalPagesArg)
                    = parseResult
              /\ parsePageRanges(Join(<<toks[k]>> \o toks), totalPagesArg)
                    = parseResult
        /\ rangesString = <<"1", "-", "3", ",", "5">> =>
              /\ parsePageRanges(SwappedSpec, totalPagesArg) = parseResult
              /\ parsePageRanges(RepeatedSpec, totalPagesArg) = parseResult

\* "1-3,5" of 10 pages, whose swapped and repeated forms are tried
C21_Witness ==
    /\ ParseOk
    /\ rangesString = <<"1", "-", "3", ",", "5">>
    /\ totalPagesArg = ExampleTotal
    /\ parseResult.pages = <<1, 2, 3, 5>>
    /\ Join(<<Tokens(rangesString)[2], Tokens(rangesString)[1]>>) = SwappedSpec

\* three valid tokens out of order, one of them repeated
C21_WitnessThree ==
    /\ ParseOk
    /\ AllTokensValid(rangesString, totalPagesArg)
    /\ Len(Tokens(rangesString)) = 3
    /\ Tokens(rangesString)[1] # Tokens(rangesString)[2]
    /\ ~StrictlyAscending(ParseLoop(Ranges(rangesString), 1, <<>>, totalPagesArg).pages)

----------------------------------------------------------------------------
(* Properties of the outputs of a range split against the tokens (Spec) *)

SetMin(S) == CHOOSE x \in S : \A y \in S : x <= y

SetMax(S) == CHOOSE x \in S : \A y \in S : y <= x

\* the range records whose expression has valid tokens only
ValidRangeRecords ==
    {r \in RangeRecords :
        AllTokensValid(ItemOf(r).pageRanges, Len(SourcePages(r)))}

\* the pages the k-th label of the record denotes
LabelPages(r, k) == Expansion(r.json.pageRanges[k])

\* "1-5"
MergedLabel == <<"1", "-", "5">>

\* C22: for an expression whose tokens are all valid, the labels of the
\* outputs denote the requested page set as disjoint intervals in ascending
\* order, any two consecutive ones separated by pages that were not
\* requested; overlapping or adjacent tokens give one output ("1-3,4-5" and
\* "4-5,1-3" give "1-5"), and there are never more outputs than tokens.
C22_MergedIntervals ==
    \A r \in ValidRangeRecords :
        LET spec == ItemOf(r).pageRanges
            total == Len(SourcePages(r))
            labels == r.json.pageRanges
        IN /\ \A k \in 1..Len(labels) : ValidToken(labels[k], total)
           /\ UNION {LabelPages(r, k) : k \in 1..Len(labels)} = RequestedPages(spec)
           /\ \A k \in 1..(Len(labels) - 1) :
                 /\ SetMax(LabelPages(r, k)) + 1 < SetMin(LabelPages(r, k + 1))
                 /\ \A q \in (SetMax(LabelPages(r, k)) + 1)
                               ..(SetMin(LabelPages(r, k + 1)) - 1) :
                       q \notin RequestedPages(spec)
           /\ r.json.count = Len(labels)
           /\ r.json.count <= Len(Tokens(spec))
           /\ spec \in {AdjacentSpec, AdjacentSpecSwapped} => labels = <<MergedLabel>>

\* "4-5,1-3" of 10 pages gave the single output "1-5"
C22_Witness ==
    /\ pc = "returned"
    /\ \E r \in ValidRangeRecords :
          /\ ItemOf(r).pageRanges = AdjacentSpecSwapped
          /\ r.json.pageRanges = <<MergedLabel>>
          /\ Len(OutputPages(r, 1)) = 5

\* overlapping tokens out of order merged into fewer outputs than tokens
C22_WitnessOverlap ==
    \E r \in ValidRangeRecords :
        /\ Len(Tokens(ItemOf(r).pageRanges)) = 3
        /\ r.json.count = 1
        /\ Len(SourcePages(r)) <= MaxPages

\* two outputs with an unrequested page between them
C22_WitnessGap ==
    \E r \in ValidRangeRecords :
        /\ r.json.count = 2
        /\ Len(SourcePages(r)) <= MaxPages
        /\ SetMax(LabelPages(r, 1)) + 2 = SetMin(LabelPages(r, 2))

----------------------------------------------------------------------------
(* Properties of the records returned by PdfLib.execute (Spec) *)

\* C23: with the continue-on-failure flag, execute returns exactly one
\* record per input item, in input order, the record of the item at 0-based
\* position k having pairedItem = k and being a result record or an error
\* record, whatever the operation and the split mode of the items.
C23_OneRecordPerItem ==
    (continueOnFail /\ pc = "returned") =>
        /\ Len(returnData) = Len(items)
        /\ \A k \in 1..Len(returnData) :
              /\ returnData[k].pairedItem = k - 1
              /\ \/ IsErrorRecord(returnData[k])
                 \/ IsSplitRecord(returnData[k])
                 \/ IsInfoRecord(returnData[k])

\* what does hold: one record for every item whose operation the switch has
\* a case for, in input order, and none for the others
OneRecordPerKnownOperation ==
    (continueOnFail /\ pc = "returned") =>
        /\ \A k \in 0..(Len(items) - 1) :
              Cardinality(RecordsOf(k))
                  = IF HasCase(items[k + 1]) \/ ItemFails(items[k + 1]) THEN 1 ELSE 0
        /\ \A j \in 1..(Len(returnData) - 1) :
              returnData[j].pairedItem < returnData[j + 1].pairedItem

----------------------------------------------------------------------------
(* Properties of SplitPdf.execute against PdfLib.execute (SpecBoth) *)

\* the item asks the PdfLib node for a chunk split of a valid size
ChunkItem(item) ==
    /\ item.operation = "split" /\ item.splitMode = "chunkSize"
    /\ item.chunkSize >= 1

\* the split records of the two nodes for the item at 0-based position k
PdfLibSplitsOf(k) ==
    {j \in 1..Len(returnData) :
        returnData[j].pairedItem = k /\ IsSplitRecord(returnData[j])}

SplitPdfSplitsOf(k) ==
    {j \in 1..Len(splitReturnData) :
        splitReturnData[j].pairedItem = k /\ IsSplitRecord(splitReturnData[j])}

\* both nodes load the attachment of the item
BothLoad(item) ==
    /\ ~MissingBinary(item) /\ ~Unloadable(item)
    /\ SplitLoads(item.binary[item.binaryPropertyName])

\* the split of one record is the split of the other: number of outputs,
\* ordered labels, attachment keys and the pages of every output
SameSplit(r, q) ==
    /\ r.json.count = q.json.count
    /\ r.json.pageRanges = q.json.pageRanges
    /\ DOMAIN r.binary = DOMAIN q.binary
    /\ DOMAIN q.binary = {OutputKey(n) : n \in 1..q.json.count}
    /\ \A key \in DOMAIN q.binary : r.binary[key].data = q.binary[key].data

\* C24: on the split itself the SplitPdf node and the PdfLib node in chunk
\* mode agree: for the same document and the same chunkSize >= 1 their
\* records have the same number of outputs, the same ordered range labels,
\* the same pages in each output and the same attachment keys pdf1..pdfN;
\* and for a document that both nodes load each of them has such a record
\* once it is past the item.
C24_SameSplit ==
    \A k \in 0..(Len(items) - 1) :
        ChunkItem(items[k + 1]) =>
            /\ \A j \in PdfLibSplitsOf(k) : \A n \in SplitPdfSplitsOf(k) :
                  SameSplit(returnData[j], splitReturnData[n])
            /\ BothLoad(items[k + 1]) =>
                  /\ itemIndex > k => Cardinality(PdfLibSplitsOf(k)) = 1
                  /\ splitItemIndex > k => Cardinality(SplitPdfSplitsOf(k)) = 1

\* both nodes split the same document into several chunks, the last one
\* shorter, and differ in the file names of the attachments
C24_Witness ==
    /\ splitPc = "returned"
    /\ \E k \in 0..(Len(items) - 1) :
          /\ ChunkItem(items[k + 1])
          /\ items[k + 1].chunkSize >= 2
          /\ \E j \in PdfLibSplitsOf(k) : \E n \in SplitPdfSplitsOf(k) :
                /\ returnData[j].json.count >= 2
                /\ returnData[j].json.pageRanges = splitReturnData[n].json.pageRanges
                /\ Len(OutputPages(splitReturnData[n], splitReturnData[n].json.count))
                      < items[k + 1].chunkSize
                /\ returnData[j].binary[OutputKey(1)].fileName
                      # splitReturnData[n].binary[OutputKey(1)].fileName

\* an encrypted document: the PdfLib node splits it, the SplitPdf node
\* refuses to load it
C24_WitnessEncrypted ==
    /\ splitPc = "returned"
    /\ Len(items) = 1
    /\ ChunkItem(items[1])
    /\ ~MissingBinary(items[1])
    /\ items[1].binary["data"].doc.isEncrypted
    /\ PdfLibSplitsOf(0) # {}
    /\ splitReturnData = <<SplitErrorRecord(SplitLoadError, 0)>>

====
